---- MODULE Spec2Model ----
(***************************************************************************)
(* Model of the chat route handler (src/unnamed/part_000): POST,           *)
(* generateText, generateImage, generateAudio and the response cache; and  *)
(* of the attachment state of ChatInput (src/unnamed/part_003).            *)
(*                                                                         *)
(* Strings the code inspects, concatenates or keys on (prompts, completion *)
(* texts, cache keys, base64 payloads, data URLs) are sequences of         *)
(* one-character strings.  Strings the code only compares for equality     *)
(* (the ERROR_MESSAGES taxonomy, exception messages, provider codes) are   *)
(* TLA+ strings.  A character that has no TLA+ string literal is written   *)
(* by its code point, as in "U+00A0".                                      *)
(***************************************************************************)
EXTENDS Integers, Sequences, FiniteSets, Bags, TLC

VARIABLES
    OPENAI_API_KEY,   \* process.env.OPENAI_API_KEY is set (TRUE) or not
    responseCache,    \* the module-level Map: key -> [data, timestamp]
    now,              \* Date.now(), in milliseconds
    requests,         \* per request slot: the position and locals of one POST
    chatInput         \* the state, refs and pending callbacks of ChatInput

vars == <<OPENAI_API_KEY, responseCache, now, requests, chatInput>>

\* the variables of the route handler
server == <<OPENAI_API_KEY, responseCache, now, requests>>

----------------------------------------------------------------------------
(* Bounds of the model *)

\* the clock runs up to MaxSpans cache lifetimes
MaxSpans == 1
\* longest JSON array sent in the history field
MaxHist == 6
\* completion texts run up to MaxOver characters past the length at which
\* the voice changes
MaxOver == 2
\* getUserMedia calls and recorder stop events pending at the same time
MaxPending == 2
\* FileReader loads pending at the same time
MaxReads == 2

\* request slots whose handlers may be in flight at the same time
Clients == {1, 2}

----------------------------------------------------------------------------
(* Program constants *)

ERROR_MESSAGES == [
    MISSING_API_KEY  |-> "Missing API key in server configuration.",
    INVALID_REQUEST  |-> "Invalid request format or empty message.",
    PROCESSING_ERROR |-> "An error occurred while processing your request.",
    MEDIA_ERROR      |-> "Unable to process the uploaded media. Please try again.",
    NO_RESPONSE      |-> "Unable to generate a response. Please try again.",
    MODEL_ERROR      |-> "The language model is currently unavailable. Please try again later.",
    NETWORK_ERROR    |-> "Network connection error. Please check your connection and try again.",
    INVALID_RESPONSE |-> "Received an invalid response from the model.",
    RATE_LIMIT       |-> "Rate limit exceeded. Please try again in a moment.",
    INVALID_API_KEY  |-> "Invalid API key. Please check your API key configuration.",
    CONTENT_POLICY   |-> "Your request could not be processed due to content policy restrictions.",
    SAFETY_ERROR     |-> "The request was flagged by our safety system.",
    REGION_ERROR     |-> "OpenAI services are not available in your region. Please use a VPN or contact support."
]

\* the 13 strings of the taxonomy
ErrorMessage == {ERROR_MESSAGES[k] : k \in DOMAIN ERROR_MESSAGES}

CACHE_TTL == 5 * 60 * 1000

REGION_CODE == "unsupported_country_region_territory"
POLICY_CODE == "content_policy_violation"

IMAGE_URL_PREFIX ==
    <<"d", "a", "t", "a", ":", "i", "m", "a", "g", "e", "/", "p", "n", "g",
      ";", "b", "a", "s", "e", "6", "4", ",">>
AUDIO_URL_PREFIX ==
    <<"d", "a", "t", "a", ":", "a", "u", "d", "i", "o", "/", "m", "p", "3",
      ";", "b", "a", "s", "e", "6", "4", ",">>

IMAGE_CAPTION == "Here's the generated image based on your request."

----------------------------------------------------------------------------
(* Strings *)

UpperCase ==
    <<"A", "B", "C", "D", "E", "F", "G", "H", "I", "J", "K", "L", "M", "N",
      "O", "P", "Q", "R", "S", "T", "U", "V", "W", "X", "Y", "Z">>
LowerCase ==
    <<"a", "b", "c", "d", "e", "f", "g", "h", "i", "j", "k", "l", "m", "n",
      "o", "p", "q", "r", "s", "t", "u", "v", "w", "x", "y", "z">>

\* case folding of the regular expressions' /i flag
ToLower(c) ==
    IF \E i \in 1..Len(UpperCase) : UpperCase[i] = c
    THEN LowerCase[CHOOSE i \in 1..Len(UpperCase) : UpperCase[i] = c]
    ELSE c

\* s contains the (lower-case) word p at some position, ignoring case
Contains(s, p) ==
    \E i \in 0..(Len(s) - Len(p)) :
        \A j \in 1..Len(p) : ToLower(s[i + j]) = p[j]

\* /a|b|c/i.test(s)
RegexTest(alternatives, s) == \E p \in alternatives : Contains(s, p)

\* String.prototype.includes for a single character, case-sensitive
Includes(s, c) == \E i \in 1..Len(s) : s[i] = c

\* the WhiteSpace and LineTerminator characters of ECMAScript, which
\* String.prototype.trim strips
WhiteSpace ==
    { " ", "\t", "\n", "\r", "\f", "U+000B", "U+00A0", "U+FEFF", "U+2028",
      "U+2029", "U+1680", "U+2000", "U+2001", "U+2002", "U+2003", "U+2004",
      "U+2005", "U+2006", "U+2007", "U+2008", "U+2009", "U+200A", "U+202F",
      "U+205F", "U+3000" }

IsWhitespace(c) == c \in WhiteSpace

\* String.prototype.startsWith
StartsWith(s, p) == Len(s) >= Len(p) /\ SubSeq(s, 1, Len(p)) = p

RECURSIVE TrimStart(_)
TrimStart(s) ==
    IF s # <<>> /\ IsWhitespace(Head(s)) THEN TrimStart(Tail(s)) ELSE s

RECURSIVE TrimEnd(_)
TrimEnd(s) ==
    IF s # <<>> /\ IsWhitespace(s[Len(s)])
    THEN TrimEnd(SubSeq(s, 1, Len(s) - 1))
    ELSE s

\* String.prototype.trim
Trim(s) == TrimEnd(TrimStart(s))

\* Array.prototype.slice(start) and String.prototype.slice(start)
Slice(s, start) ==
    LET from == IF start < 0
                THEN (IF Len(s) + start < 0 THEN 0 ELSE Len(s) + start)
                ELSE (IF start > Len(s) THEN Len(s) ELSE start)
    IN  SubSeq(s, from + 1, Len(s))

----------------------------------------------------------------------------
(* Buffer.toString('base64') *)

Base64Alphabet ==
    <<"A", "B", "C", "D", "E", "F", "G", "H", "I", "J", "K", "L", "M", "N",
      "O", "P", "Q", "R", "S", "T", "U", "V", "W", "X", "Y", "Z",
      "a", "b", "c", "d", "e", "f", "g", "h", "i", "j", "k", "l", "m", "n",
      "o", "p", "q", "r", "s", "t", "u", "v", "w", "x", "y", "z",
      "0", "1", "2", "3", "4", "5", "6", "7", "8", "9", "+", "/">>

B64(n) == Base64Alphabet[n + 1]

RECURSIVE Base64(_)
Base64(bytes) ==
    IF Len(bytes) = 0 THEN <<>>
    ELSE IF Len(bytes) = 1 THEN
        <<B64(bytes[1] \div 4), B64((bytes[1] % 4) * 16), "=", "=">>
    ELSE IF Len(bytes) = 2 THEN
        <<B64(bytes[1] \div 4),
          B64((bytes[1] % 4) * 16 + bytes[2] \div 16),
          B64((bytes[2] % 16) * 4), "=">>
    ELSE
        <<B64(bytes[1] \div 4),
          B64((bytes[1] % 4) * 16 + bytes[2] \div 16),
          B64((bytes[2] % 16) * 4 + bytes[3] \div 64),
          B64(bytes[3] % 64)>> \o Base64(SubSeq(bytes, 4, Len(bytes)))

----------------------------------------------------------------------------
(* Intent patterns of generateText *)

ImageActionPattern ==
    { <<"g", "e", "n", "e", "r", "a", "t", "e">>,
      <<"c", "r", "e", "a", "t", "e">>,
      <<"m", "a", "k", "e">>,
      <<"d", "r", "a", "w">>,
      <<"s", "h", "o", "w">>,
      <<"g", "i", "v", "e", " ", "m", "e">>,
      <<"i", "m", "a", "g", "i", "n", "e">> }

ImageSubjectPattern ==
    { <<"i", "m", "a", "g", "e">>,
      <<"p", "i", "c", "t", "u", "r", "e">>,
      <<"p", "h", "o", "t", "o">>,
      <<"a", "r", "t", "w", "o", "r", "k">>,
      <<"d", "r", "a", "w", "i", "n", "g">>,
      <<"i", "l", "l", "u", "s", "t", "r", "a", "t", "i", "o", "n">>,
      <<"l", "o", "g", "o">>,
      <<"i", "c", "o", "n">> }

AudioActionPattern ==
    { <<"g", "e", "n", "e", "r", "a", "t", "e">>,
      <<"c", "r", "e", "a", "t", "e">>,
      <<"m", "a", "k", "e">>,
      <<"s", "p", "e", "a", "k">>,
      <<"s", "a", "y">>,
      <<"t", "e", "l", "l">>,
      <<"r", "e", "a", "d">> }

AudioSubjectPattern ==
    { <<"a", "u", "d", "i", "o">>,
      <<"s", "p", "e", "e", "c", "h">>,
      <<"v", "o", "i", "c", "e">>,
      <<"s", "o", "u", "n", "d">>,
      <<"s", "p", "e", "a", "k">>,
      <<"t", "a", "l", "k">> }

isImageRequest(prompt) ==
    RegexTest(ImageActionPattern, prompt) /\ RegexTest(ImageSubjectPattern, prompt)

isAudioRequest(prompt) ==
    RegexTest(AudioActionPattern, prompt) /\ RegexTest(AudioSubjectPattern, prompt)

\* the audio test placed before the image test
IntentAudioFirst(prompt) ==
    IF isAudioRequest(prompt) THEN "audio"
    ELSE IF isImageRequest(prompt) THEN "image"
    ELSE "text"

\* the branch generateText takes: image is tested first, then audio
Intent(prompt) ==
    IF isImageRequest(prompt) THEN "image"
    ELSE IF isAudioRequest(prompt) THEN "audio"
    ELSE "text"

----------------------------------------------------------------------------
(* Values *)

\* a string value: a literal of the program (lit) or a run-time text (chars)
Lit(s) == [lit |-> s, chars |-> <<>>]
Txt(c) == [lit |-> "", chars |-> c]

\* FormData.get(name): null, a File, or a string
FormNull == [tag |-> "null", chars |-> <<>>]
FormFile == [tag |-> "file", chars |-> <<>>]
FormString(s) == [tag |-> "string", chars |-> s]

\* The history field.  Its string value is JSON text, described by the
\* document it holds: t = "empty" is the empty string, t = "invalid" is text
\* that JSON.parse rejects, the others are the value the text denotes.
HistoryEntry(i) ==
    [kind |-> "entry",
     role |-> IF i % 2 = 1 THEN "user" ELSE "system",
     content |-> Txt(<<LowerCase[i]>>),
     name |-> ""]
CharItem(c) == [kind |-> "char", role |-> "", content |-> Txt(<<c>>), name |-> ""]

JsonDoc(t, items) == [t |-> t, items |-> items]
HistNull == [tag |-> "null", json |-> JsonDoc("empty", <<>>)]
HistFile == [tag |-> "file", json |-> JsonDoc("empty", <<>>)]
HistString(doc) == [tag |-> "string", json |-> doc]

EmptyArray == JsonDoc("array", <<>>)
HistoryArray(n) == JsonDoc("array", [i \in 1..n |-> HistoryEntry(i)])

\* an exception: an OpenAI.APIError (api) or another Error; status 0 and
\* code "" stand for undefined
APIError(status, code, message) ==
    [api |-> TRUE, status |-> status, code |-> code, message |-> message]
Error(message) ==
    [api |-> FALSE, status |-> 0, code |-> "", message |-> message]
NoError == Error("")

\* the envelope generateText returns
Envelope(type, content) ==
    [type |-> type, content |-> content, hasUrl |-> FALSE, url |-> <<>>]
EnvelopeWithUrl(type, content, url) ==
    [type |-> type, content |-> content, hasUrl |-> TRUE, url |-> url]
NoEnvelope == Envelope("", Lit(""))

\* req.formData(): the form, or the rejection with a TypeError
FormBody == [ok |-> TRUE, error |-> ""]
BodyRejects(message) == [ok |-> FALSE, error |-> message]

\* how a function body ends: it returns a value or throws
Return(env) == [k |-> "return", env |-> env, err |-> NoError]
Throw(err) == [k |-> "throw", env |-> NoEnvelope, err |-> err]

\* NextResponse.json(body, {status})
JsonError(message, status) ==
    [kind |-> "error", status |-> status, error |-> message, envelope |-> NoEnvelope]
JsonEnvelope(env) ==
    [kind |-> "envelope", status |-> 200, error |-> "", envelope |-> env]
NoResponse == [kind |-> "none", status |-> 0, error |-> "", envelope |-> NoEnvelope]

----------------------------------------------------------------------------
(* The response cache *)

\* the key without the prompt
generateCacheKeyKindOnly(prompt, type) == type

generateCacheKey(prompt, type) == type \o <<":">> \o prompt

KeyImage == <<"i", "m", "a", "g", "e">>
KeyAudio == <<"a", "u", "d", "i", "o">>

\* the lifetime taken in seconds against a clock in milliseconds
FreshSeconds(cached, t) == t - cached.timestamp < 5 * 60

\* the lifetime bound included
FreshInclusive(cached, t) == t - cached.timestamp <= CACHE_TTL

\* Date.now() - cached.timestamp < CACHE_TTL
Fresh(cached, t) == t - cached.timestamp < CACHE_TTL

\* cached && Date.now() - cached.timestamp < CACHE_TTL
CacheHit(cache, cacheKey, t) ==
    cacheKey \in DOMAIN cache /\ Fresh(cache[cacheKey], t)

\* responseCache.set(cacheKey, { data, timestamp: Date.now() })
CacheSet(cache, cacheKey, data, t) ==
    [k \in DOMAIN cache \cup {cacheKey} |->
        IF k = cacheKey THEN [data |-> data, timestamp |-> t] ELSE cache[k]]

----------------------------------------------------------------------------
(* generateText, generateImage, generateAudio: the parts between awaits *)

RegionEnvelope == Envelope("text", Lit(ERROR_MESSAGES.REGION_ERROR))

\* JSON.parse(historyStr) guarded by the try/catch of POST
ParseHistory(historyStr) ==
    IF historyStr.tag = "string" /\ historyStr.json.t # "empty"
    THEN IF historyStr.json.t = "invalid" THEN EmptyArray ELSE historyStr.json
    ELSE EmptyArray

\* const recentHistory = history.slice(-5)
SliceThrows(history) == history.t \notin {"array", "string"}
SliceError(history) ==
    IF history.t = "null"
    THEN Error("Cannot read properties of null (reading 'slice')")
    ELSE Error("history.slice is not a function")
\* history.slice(0, 5): the first five entries
recentHistoryFirst(history) ==
    SubSeq(history.items, 1, IF Len(history.items) < 5 THEN Len(history.items) ELSE 5)

recentHistory(history) == Slice(history.items, -5)

UserMessage(prompt) ==
    [kind |-> "entry", role |-> "user", content |-> Txt(prompt), name |-> ""]
SystemMessage(name) ==
    [kind |-> "entry", role |-> "system",
     content |-> Lit(IF name = "imagePrompt"
                     THEN "Create a concise image description for DALL-E 3. Focus on key visual elements. Keep it under 100 words."
                     ELSE "Generate a brief, natural response for text-to-speech. Keep it under 100 words."),
     name |-> name]

\* the messages of the chat.completions.create call of each branch
CompletionMessages(intent, prompt, history) ==
    recentHistory(history) \o <<UserMessage(prompt)>> \o
        (IF intent = "image" THEN <<SystemMessage("imagePrompt")>>
         ELSE IF intent = "audio" THEN <<SystemMessage("audioPrompt")>>
         ELSE <<>>)

\* the catch of the image branch and of the audio branch
BranchCatch(res) ==
    IF res.k = "throw" /\ res.err.message = ERROR_MESSAGES.REGION_ERROR
    THEN Return(RegionEnvelope)
    ELSE res

\* the catch around the whole body of generateText
TextCatch(res) ==
    IF res.k = "throw" /\ res.err.api /\ res.err.code = REGION_CODE
    THEN Return(RegionEnvelope)
    ELSE res

\* generateText's handling of what a branch produced
generateTextEnd(intent, res) ==
    IF intent \in {"image", "audio"} THEN TextCatch(BranchCatch(res))
    ELSE TextCatch(res)

\* the catch without its region case
MediaCatchNoRegion(err) == Error(ERROR_MESSAGES.MEDIA_ERROR)

\* the catch of generateImage and of generateAudio
MediaCatch(err) ==
    IF err.api /\ err.code = REGION_CODE
    THEN Error(ERROR_MESSAGES.REGION_ERROR)
    ELSE Error(ERROR_MESSAGES.MEDIA_ERROR)

ImageUrl(imageBase64) == IMAGE_URL_PREFIX \o imageBase64
\* the bare payload, without the data URL prefix
AudioUrlBare(audioBase64) == audioBase64

AudioUrl(audioBase64) == AUDIO_URL_PREFIX \o audioBase64

ImageEnvelope(imageBase64) ==
    EnvelopeWithUrl("image", Lit(IMAGE_CAPTION), ImageUrl(imageBase64))
AudioEnvelope(textContent, audioBase64) ==
    EnvelopeWithUrl("audio", Txt(textContent), AudioUrl(audioBase64))

\* the length looked at before the question mark
VoiceForLengthFirst(text) ==
    IF Len(text) > 200 THEN "onyx"
    ELSE IF Includes(text, "?") THEN "shimmer"
    ELSE IF Includes(text, "!") THEN "fable"
    ELSE "nova"

\* the voice generateAudio passes to speech synthesis
VoiceFor(text) ==
    IF Includes(text, "?") THEN "shimmer"
    ELSE IF Len(text) > 200 THEN "onyx"
    ELSE IF Includes(text, "!") THEN "fable"
    ELSE "nova"

----------------------------------------------------------------------------
(* POST: validation and error mapping *)

\* the test without the trim
InvalidMessageNoTrim(message) ==
    \/ message.tag = "null" \/ (message.tag = "string" /\ message.chars = <<>>)
    \/ message.tag # "string"

\* !message || typeof message !== 'string' || !message.trim()
InvalidMessage(message) ==
    \/ message.tag = "null" \/ (message.tag = "string" /\ message.chars = <<>>)
    \/ message.tag # "string"
    \/ Trim(message.chars) = <<>>

\* every provider error answered with 500
ErrorStatusFixed(err) == 500

\* const status = error.status || 500
ErrorStatus(err) == IF err.status # 0 THEN err.status ELSE 500

\* the catch around generateText in POST
PostCatch(err) ==
    IF err.api THEN
        LET status == ErrorStatus(err)
            m0 == ERROR_MESSAGES.MODEL_ERROR
            m1 == IF err.status = 401 THEN ERROR_MESSAGES.INVALID_API_KEY ELSE m0
            m2 == IF err.status = 429 THEN ERROR_MESSAGES.RATE_LIMIT ELSE m1
            m3 == IF err.code = REGION_CODE THEN ERROR_MESSAGES.REGION_ERROR ELSE m2
        IN  IF err.code = POLICY_CODE
            THEN JsonError(ERROR_MESSAGES.CONTENT_POLICY, 400)
            ELSE JsonError(m3, status)
    ELSE JsonError(err.message, 500)

\* the response POST sends for what generateText produced
PostEnd(res) ==
    IF res.k = "return" THEN JsonEnvelope(res.env) ELSE PostCatch(res.err)

----------------------------------------------------------------------------
(* Inputs: what clients send and what the provider answers *)

\* bodies: a form, a body of another content type, a malformed multipart
\* body
AllBodies ==
    { FormBody,
      BodyRejects("Content-Type was not one of \"multipart/form-data\" or \"application/x-www-form-urlencoded\"."),
      BodyRejects("Failed to parse body as FormData.") }

\* message fields: missing, a File, empty, whitespace only, and prompts of
\* each intent
AllMessages ==
    { FormNull, FormFile, FormString(<<>>), FormString(<<" ", "\t", "\n">>),
      \* a form feed and a no-break space
      FormString(<<"\f", "U+00A0">>),
      \* text intent
      FormString(<<" ", "h", "i", " ">>),
      \* an audio action without an audio subject: text intent
      FormString(<<"s", "a", "y", " ", "h", "i">>),
      \* an audio action with an image subject: text intent
      FormString(<<"r", "e", "a", "d", " ", "a", " ", "p", "h", "o", "t", "o">>),
      \* image intent, in mixed case
      FormString(<<"D", "r", "a", "w", " ", "a", " ", "L", "O", "G", "O">>),
      \* audio intent on one word: speak is an action and a subject
      FormString(<<"s", "p", "e", "a", "k">>),
      \* matches the image patterns and the audio patterns
      FormString(<<"m", "a", "k", "e", " ", "s", "o", "u", "n", "d", " ",
                   "i", "c", "o", "n">>) }

CoreMessages ==
    { FormString(<<"D", "r", "a", "w", " ", "a", " ", "L", "O", "G", "O">>),
      FormString(<<"s", "p", "e", "a", "k">>) }

\* history fields: missing, a File, and strings holding the empty string,
\* unparseable text, the JSON values null, 7, {} and "abcdefg", and arrays
AllHistories ==
    { HistNull, HistFile,
      HistString(JsonDoc("empty", <<>>)),
      HistString(JsonDoc("invalid", <<>>)),
      HistString(JsonDoc("null", <<>>)),
      HistString(JsonDoc("number", <<>>)),
      HistString(JsonDoc("object", <<>>)),
      HistString(JsonDoc("string",
          [i \in 1..7 |-> CharItem(LowerCase[i])])) }
    \cup { HistString(HistoryArray(n)) : n \in 0..MaxHist }

CoreHistories == { HistNull, HistString(HistoryArray(1)) }

\* failures of an upstream call
AllErrors ==
    { APIError(401, "invalid_api_key", "401 Incorrect API key provided."),
      APIError(429, "rate_limit_exceeded", "429 Rate limit reached."),
      APIError(400, POLICY_CODE, "400 Your request was rejected by the safety system."),
      APIError(403, REGION_CODE, "403 Country, region, or territory not supported"),
      APIError(503, "", "503 Service Unavailable"),
      APIError(0, "", "Connection error."),
      Error("terminated") }

CoreErrors ==
    { APIError(403, REGION_CODE, "403 Country, region, or territory not supported"),
      APIError(429, "rate_limit_exceeded", "429 Rate limit reached.") }

\* choices[0]?.message?.content: undefined or null (present = FALSE) or a string
Content(chars) == [present |-> TRUE, chars |-> chars]
NoContent == [present |-> FALSE, chars |-> <<>>]
AllContents == { NoContent, Content(<<>>), Content(<<"h", "i", "?">>) }
CoreContents == { Content(<<"a", " ", "c", "a", "t">>) }

\* response.data[0]?.b64_json
AllImages ==
    { NoContent, Content(<<>>),
      Content(<<"i", "V", "B", "O", "R", "w", "0", "K">>) }
CoreImages ==
    { Content(<<"i", "V", "B", "O", "R", "w", "0", "K">>),
      Content(<<"R", "0", "l", "G", "O", "D", "l", "h">>) }

\* the bytes of mp3Response.arrayBuffer()
AllAudios == { <<>>, <<73, 68, 51, 4>> }
CoreAudios == { <<255, 251>>, <<73, 68, 51, 4>> }

\* the instants the clock visits: each multiple of the cache lifetime and
\* the millisecond before it
Instants ==
    { t \in { k * CACHE_TTL - d : k \in 0..MaxSpans, d \in {0, 1} } : t >= 0 }

----------------------------------------------------------------------------
(* ChatInput: the attachment state and the callbacks that change it *)

\* file.size > 5 * 1024 * 1024
MAX_FILE_SIZE == 5 * 1024 * 1024

\* File | Blob | null
NoFile == [kind |-> "null", name |-> "", size |-> 0, type |-> <<>>]
File(name, size, type) == [kind |-> "file", name |-> name, size |-> size, type |-> type]
RecordedBlob ==
    [kind |-> "blob", name |-> "", size |-> 0,
     type |-> <<"a", "u", "d", "i", "o", "/", "w", "e", "b", "m">>]

\* string | null: the data URL a FileReader made of a file
NoPreview == [present |-> FALSE, of |-> ""]
ReaderResult(file) == [present |-> TRUE, of |-> file.name]

\* file.type.startsWith('image/')
IsImageType(type) == StartsWith(type, <<"i", "m", "a", "g", "e", "/">>)

\* the state after the first render and the start of the microphone probe
InitialChatInput ==
    [input               |-> <<>>,
     mediaFile           |-> NoFile,
     isRecording         |-> FALSE,
     preview             |-> NoPreview,
     microphoneAvailable |-> TRUE,
     isLoading           |-> FALSE,     \* the prop of the parent
     fileInput           |-> NoFile,    \* fileInputRef.current.files[0]
     picking             |-> FALSE,     \* the file dialog is open
     mediaRecorder       |-> "none",    \* state of mediaRecorderRef.current
     probing             |-> TRUE,      \* getUserMedia of the mount effect pending
     asking              |-> 0,         \* getUserMedia calls of startRecording pending
     orphans             |-> 0,         \* recorders started and no longer referenced
     reading             |-> EmptyBag,  \* files of the FileReader loads pending
     stopping            |-> 0]         \* recorder stop events pending

\* what the user types and the files the user picks
Inputs == { <<>>, <<" ">>, <<"h", "i">> }
Files ==
    { File("a.png", 1024, <<"i", "m", "a", "g", "e", "/", "p", "n", "g">>),
      File("b.gif", MAX_FILE_SIZE, <<"i", "m", "a", "g", "e", "/", "g", "i", "f">>),
      File("big.png", MAX_FILE_SIZE + 1, <<"i", "m", "a", "g", "e", "/", "p", "n", "g">>),
      File("notes.txt", 1024, <<"t", "e", "x", "t", "/", "p", "l", "a", "i", "n">>) }

\* the parent changes the isLoading prop
SetLoading ==
    /\ \E b \in BOOLEAN : b # chatInput.isLoading /\
          chatInput' = [chatInput EXCEPT !.isLoading = b]
    /\ UNCHANGED server

\* onChange of the textarea
setInput ==
    /\ ~chatInput.isLoading /\ ~chatInput.picking
    /\ \E value \in Inputs : value # chatInput.input /\
          chatInput' = [chatInput EXCEPT !.input = value]
    /\ UNCHANGED server

\* getUserMedia of the mount effect settles
ProbeSettles ==
    /\ chatInput.probing
    /\ \E granted \in BOOLEAN :
          chatInput' = [chatInput EXCEPT !.probing = FALSE,
                                         !.microphoneAvailable = granted]
    /\ UNCHANGED server

\* the form is submitted by its button or by Enter in the textarea
handleSubmit ==
    /\ ~chatInput.isLoading /\ ~chatInput.picking
    /\ chatInput' =
          IF (Trim(chatInput.input) # <<>> \/ chatInput.mediaFile # NoFile)
             /\ ~chatInput.isLoading
          THEN [chatInput EXCEPT !.input = <<>>, !.mediaFile = NoFile,
                                 !.preview = NoPreview]
          ELSE chatInput
    /\ UNCHANGED server

\* the paperclip button opens the file dialog
OpenFileDialog ==
    /\ ~chatInput.isLoading /\ ~chatInput.isRecording /\ ~chatInput.picking
    /\ chatInput' = [chatInput EXCEPT !.picking = TRUE]
    /\ UNCHANGED server

\* the dialog is dismissed: no change event
CancelFileDialog ==
    /\ chatInput.picking
    /\ chatInput' = [chatInput EXCEPT !.picking = FALSE]
    /\ UNCHANGED server

\* the change event of the file input: with the file chosen, or with no
\* file when the selection was emptied
handleFileChange ==
    /\ chatInput.picking
    /\ \/ chatInput' = [chatInput EXCEPT !.picking = FALSE, !.fileInput = NoFile]
       \/ \E file \in Files :
            /\ file # chatInput.fileInput
            /\ (file.size <= MAX_FILE_SIZE /\ IsImageType(file.type))
                  => BagCardinality(chatInput.reading) < MaxReads
            /\ chatInput' =
                  IF file.size > MAX_FILE_SIZE
                  THEN [chatInput EXCEPT !.picking = FALSE, !.fileInput = file]
                  ELSE [chatInput EXCEPT
                          !.picking = FALSE,
                          !.fileInput = file,
                          !.reading = IF IsImageType(file.type)
                                      THEN @ (+) SetToBag({file}) ELSE @,
                          !.mediaFile = file]
    /\ UNCHANGED server

\* reader.onload of one of the pending loads
ReaderLoad ==
    /\ \E file \in BagToSet(chatInput.reading) :
          chatInput' = [chatInput EXCEPT !.reading = @ (-) SetToBag({file}),
                                         !.preview = ReaderResult(file)]
    /\ UNCHANGED server

\* the microphone button while not recording: startRecording up to its await
startRecording ==
    /\ ~chatInput.isLoading /\ ~chatInput.picking
    /\ chatInput.mediaFile = NoFile
    /\ chatInput.microphoneAvailable
    /\ ~chatInput.isRecording
    /\ chatInput.asking + chatInput.stopping + chatInput.orphans < MaxPending
    /\ chatInput' = [chatInput EXCEPT !.asking = @ + 1]
    /\ UNCHANGED server

\* getUserMedia settles: the rest of startRecording runs to its end, or
\* getUserMedia or new MediaRecorder throws, or mediaRecorder.start()
\* throws after mediaRecorderRef.current was assigned
startRecordingResumes ==
    /\ chatInput.asking > 0
    /\ \E outcome \in {"started", "rejected", "startThrows"} :
          chatInput' =
              IF outcome = "started"
              THEN [chatInput EXCEPT
                      !.asking = @ - 1,
                      !.orphans = IF chatInput.mediaRecorder = "recording"
                                  THEN @ + 1 ELSE @,
                      !.mediaRecorder = "recording",
                      !.isRecording = TRUE]
              ELSE IF outcome = "rejected"
              THEN [chatInput EXCEPT !.asking = @ - 1,
                                     !.microphoneAvailable = FALSE]
              ELSE [chatInput EXCEPT
                      !.asking = @ - 1,
                      !.orphans = IF chatInput.mediaRecorder = "recording"
                                  THEN @ + 1 ELSE @,
                      !.mediaRecorder = "inactive",
                      !.microphoneAvailable = FALSE]
    /\ UNCHANGED server

\* the microphone button while recording.  stop() on a recorder that is
\* already inactive throws in some browsers, before setIsRecording, and
\* returns in others
stopRecording ==
    /\ ~chatInput.isLoading /\ ~chatInput.picking
    /\ chatInput.mediaFile = NoFile
    /\ chatInput.microphoneAvailable
    /\ chatInput.isRecording
    /\ \E stopThrows \in BOOLEAN :
          chatInput' =
              IF chatInput.mediaRecorder # "none" /\ chatInput.isRecording
              THEN IF chatInput.mediaRecorder = "recording"
                   THEN [chatInput EXCEPT !.mediaRecorder = "inactive",
                                          !.stopping = @ + 1,
                                          !.isRecording = FALSE]
                   ELSE IF stopThrows THEN chatInput
                   ELSE [chatInput EXCEPT !.isRecording = FALSE]
              ELSE chatInput
    /\ UNCHANGED server

\* mediaRecorder.onstop after stop()
RecorderStop ==
    /\ chatInput.stopping > 0
    /\ chatInput' = [chatInput EXCEPT !.stopping = @ - 1,
                                      !.mediaFile = RecordedBlob]
    /\ UNCHANGED server

\* mediaRecorder.onstop of a recorder that stops by itself, its tracks
\* having ended: the one mediaRecorderRef refers to, or an earlier one
RecorderEnds ==
    /\ \/ /\ chatInput.mediaRecorder = "recording"
          /\ chatInput' = [chatInput EXCEPT !.mediaRecorder = "inactive",
                                            !.mediaFile = RecordedBlob]
       \/ /\ chatInput.orphans > 0
          /\ chatInput' = [chatInput EXCEPT !.orphans = @ - 1,
                                            !.mediaFile = RecordedBlob]
    /\ UNCHANGED server

\* the button shown over the preview
clearMedia ==
    /\ ~chatInput.picking
    /\ chatInput.preview.present \/ chatInput.mediaFile # NoFile
    /\ chatInput' = [chatInput EXCEPT !.mediaFile = NoFile,
                                      !.preview = NoPreview,
                                      !.fileInput = NoFile]
    /\ UNCHANGED server

----------------------------------------------------------------------------
(* Requests *)

\* a slot with no request in it
IdleRequest ==
    [pc         |-> "idle",
     body       |-> FormBody,      \* how req.formData() settles
     message    |-> FormNull,      \* formData.get('message')
     historyStr |-> HistNull,      \* formData.get('history')
     intent     |-> "",            \* the branch of generateText entered
     messages   |-> <<>>,          \* messages of the text-completion call
     text       |-> <<>>,          \* imagePrompt or textContent
     voice      |-> "",            \* voice of the speech call
     hit        |-> FALSE,         \* served from responseCache
     storedAt   |-> -1,            \* Date.now() of this request's cache write
     thrown     |-> NoError,       \* what the failing upstream call threw
     calls      |-> [completion |-> 0, image |-> 0, speech |-> 0],
     responses  |-> 0,             \* responses sent
     response   |-> NoResponse]

Respond(q, resp) ==
    [q EXCEPT !.pc = "done", !.response = resp, !.responses = @ + 1]

\* the catch around the whole body of POST
OuterCatch(err) == JsonError(err.message, 500)

\* POST from its entry to await req.formData(): the credential check
POSTBegin(q) ==
    IF ~OPENAI_API_KEY THEN
        Respond(q, JsonError(ERROR_MESSAGES.MISSING_API_KEY, 500))
    ELSE [q EXCEPT !.pc = "form"]

\* POST from the settling of req.formData() to its first upstream call:
\* the validation of message, the parse of history, and generateText up to
\* the text-completion call of the branch taken
POSTResume(q) ==
    IF ~q.body.ok THEN
        Respond(q, OuterCatch(Error(q.body.error)))
    ELSE IF InvalidMessage(q.message) THEN
        Respond(q, JsonError(ERROR_MESSAGES.INVALID_REQUEST, 400))
    ELSE
        LET history == ParseHistory(q.historyStr)
            prompt == q.message.chars
        IN  IF SliceThrows(history) THEN
                Respond(q, PostEnd(TextCatch(Throw(SliceError(history)))))
            ELSE
                [q EXCEPT !.pc = "completion",
                          !.intent = Intent(prompt),
                          !.messages = CompletionMessages(Intent(prompt), prompt, history),
                          !.calls.completion = @ + 1]

POST(r, bodies, messages, histories) ==
    /\ requests[r].pc = "idle"
    /\ \E body \in bodies, message \in messages, historyStr \in histories :
        /\ body.ok \/ (message = FormNull /\ historyStr = HistNull)
        /\ requests' = [requests EXCEPT ![r] =
              POSTBegin([@ EXCEPT !.body = body, !.message = message,
                                  !.historyStr = historyStr])]
    /\ UNCHANGED <<OPENAI_API_KEY, responseCache, now, chatInput>>

\* req.formData() settles
FormDataReturns(r) ==
    /\ requests[r].pc = "form"
    /\ requests' = [requests EXCEPT ![r] = POSTResume(@)]
    /\ UNCHANGED <<OPENAI_API_KEY, responseCache, now, chatInput>>

\* generateImage(prompt) from its entry to its await: the cache lookup
generateImageBegin(q, prompt) ==
    LET cacheKey == generateCacheKey(prompt, KeyImage)
    IN  IF CacheHit(responseCache, cacheKey, now)
        THEN Respond([q EXCEPT !.text = prompt, !.hit = TRUE],
                     PostEnd(Return(ImageEnvelope(responseCache[cacheKey].data))))
        ELSE [q EXCEPT !.pc = "imageSynth", !.text = prompt, !.calls.image = @ + 1]

\* generateAudio(text) from its entry to its await: the cache lookup and
\* the choice of the voice
generateAudioBegin(q, text) ==
    LET cacheKey == generateCacheKey(text, KeyAudio)
    IN  IF CacheHit(responseCache, cacheKey, now)
        THEN Respond([q EXCEPT !.text = text, !.hit = TRUE],
                     PostEnd(Return(AudioEnvelope(text, responseCache[cacheKey].data))))
        ELSE [q EXCEPT !.pc = "audioSynth", !.text = text,
                       !.voice = VoiceFor(text), !.calls.speech = @ + 1]

\* a failed text-completion call issued once more before giving up
CompletionThrowsRetry(q, err) ==
    IF q.calls.completion < 2
    THEN [q EXCEPT !.calls.completion = @ + 1, !.thrown = NoError]
    ELSE Respond(q, PostEnd(generateTextEnd(q.intent, Throw(err))))

\* the text-completion call settles: it throws err, or resolves with content
CompletionThrows(q, err) ==
    Respond(q, PostEnd(generateTextEnd(q.intent, Throw(err))))

CompletionResolves(q, content) ==
    IF ~content.present \/ content.chars = <<>> THEN
        CompletionThrows(q, Error(ERROR_MESSAGES.NO_RESPONSE))
    ELSE IF q.intent = "image" THEN generateImageBegin(q, content.chars)
    ELSE IF q.intent = "audio" THEN generateAudioBegin(q, content.chars)
    ELSE Respond(q, PostEnd(Return(Envelope("text", Txt(content.chars)))))

CompletionReturns(r, contents, errors) ==
    /\ requests[r].pc = "completion"
    /\ \/ \E content \in contents :
            requests' = [requests EXCEPT ![r] = CompletionResolves(@, content)]
       \/ \E err \in errors :
            requests' = [requests EXCEPT ![r] =
                CompletionThrows([@ EXCEPT !.thrown = err], err)]
    /\ UNCHANGED <<OPENAI_API_KEY, responseCache, now, chatInput>>

\* an error thrown inside the try of generateImage or generateAudio
MediaThrows(q, err) ==
    Respond(q, PostEnd(generateTextEnd(q.intent, Throw(MediaCatch(err)))))

\* the store placed before the check of the image data
ImageReturnsStoreFirst(r, images, errors) ==
    /\ requests[r].pc = "imageSynth"
    /\ \/ \E image \in images :
            /\ responseCache' = CacheSet(responseCache,
                  generateCacheKey(requests[r].text, KeyImage), image.chars, now)
            /\ requests' = [requests EXCEPT ![r] =
                  IF ~image.present \/ image.chars = <<>>
                  THEN MediaThrows(@, Error(ERROR_MESSAGES.NO_RESPONSE))
                  ELSE Respond([@ EXCEPT !.storedAt = now],
                               PostEnd(Return(ImageEnvelope(image.chars))))]
       \/ \E err \in errors :
            /\ requests' = [requests EXCEPT ![r] =
                  MediaThrows([@ EXCEPT !.thrown = err], err)]
            /\ UNCHANGED responseCache
    /\ UNCHANGED <<OPENAI_API_KEY, now, chatInput>>

\* openai.images.generate settles
ImageReturns(r, images, errors) ==
    /\ requests[r].pc = "imageSynth"
    /\ \/ \E image \in images :
            IF ~image.present \/ image.chars = <<>> THEN
                /\ requests' = [requests EXCEPT ![r] =
                      MediaThrows(@, Error(ERROR_MESSAGES.NO_RESPONSE))]
                /\ UNCHANGED responseCache
            ELSE
                /\ responseCache' = CacheSet(responseCache,
                      generateCacheKey(requests[r].text, KeyImage), image.chars, now)
                /\ requests' = [requests EXCEPT ![r] =
                      Respond([@ EXCEPT !.storedAt = now],
                              PostEnd(Return(ImageEnvelope(image.chars))))]
       \/ \E err \in errors :
            /\ requests' = [requests EXCEPT ![r] =
                  MediaThrows([@ EXCEPT !.thrown = err], err)]
            /\ UNCHANGED responseCache
    /\ UNCHANGED <<OPENAI_API_KEY, now, chatInput>>

\* openai.audio.speech.create settles
SpeechReturns(r, errors) ==
    /\ requests[r].pc = "audioSynth"
    /\ \/ requests' = [requests EXCEPT ![r].pc = "audioBody"]
       \/ \E err \in errors :
            requests' = [requests EXCEPT ![r] =
                MediaThrows([@ EXCEPT !.thrown = err], err)]
    /\ UNCHANGED <<OPENAI_API_KEY, responseCache, now, chatInput>>

\* mp3Response.arrayBuffer() settles
AudioReturns(r, audios, errors) ==
    /\ requests[r].pc = "audioBody"
    /\ \/ \E bytes \in audios :
            LET base64Audio == Base64(bytes)
            IN  /\ responseCache' = CacheSet(responseCache,
                      generateCacheKey(requests[r].text, KeyAudio), base64Audio, now)
                /\ requests' = [requests EXCEPT ![r] =
                      Respond([@ EXCEPT !.storedAt = now],
                              PostEnd(Return(AudioEnvelope(requests[r].text, base64Audio))))]
       \/ \E err \in errors :
            /\ requests' = [requests EXCEPT ![r] =
                  MediaThrows([@ EXCEPT !.thrown = err], err)]
            /\ UNCHANGED responseCache
    /\ UNCHANGED <<OPENAI_API_KEY, now, chatInput>>

\* the client has its response; the slot is free for its next request
Finish(r) ==
    /\ requests[r].pc = "done"
    /\ requests' = [requests EXCEPT ![r] = IdleRequest]
    /\ UNCHANGED <<OPENAI_API_KEY, responseCache, now, chatInput>>

\* time passes
Tick ==
    /\ \E t \in Instants : t > now /\ now' = t
    /\ UNCHANGED <<OPENAI_API_KEY, responseCache, requests, chatInput>>

Init ==
    /\ OPENAI_API_KEY \in BOOLEAN
    /\ responseCache = <<>>
    /\ now = 0
    /\ requests = [r \in Clients |-> IdleRequest]
    /\ chatInput = InitialChatInput

\* concurrent clients, the inputs the cache depends on
Next ==
    \/ \E r \in Clients : POST(r, {FormBody}, CoreMessages, CoreHistories)
    \/ \E r \in Clients : FormDataReturns(r)
    \/ \E r \in Clients : CompletionReturns(r, CoreContents, CoreErrors)
    \/ \E r \in Clients : ImageReturns(r, CoreImages, CoreErrors)
    \/ \E r \in Clients : SpeechReturns(r, CoreErrors)
    \/ \E r \in Clients : AudioReturns(r, CoreAudios, CoreErrors)
    \/ \E r \in Clients : Finish(r)
    \/ Tick

Spec == Init /\ [][Next]_vars

\* one client, every form and every upstream outcome
NextForm ==
    \/ POST(1, AllBodies, AllMessages, AllHistories)
    \/ FormDataReturns(1)
    \/ CompletionReturns(1, AllContents, AllErrors)
    \/ ImageReturns(1, AllImages, AllErrors)
    \/ SpeechReturns(1, AllErrors)
    \/ AudioReturns(1, AllAudios, AllErrors)
    \/ Finish(1)
    \/ Tick

FormSpec == Init /\ [][NextForm]_vars

\* the texts the first stage may give two requests that carry one prompt
KeyContents ==
    { Content(<<"a", " ", "c", "a", "t">>), Content(<<"a", " ", "d", "o", "g">>) }

\* the provider's answer to a call over its quota
WriteErrors == { APIError(429, "rate_limit_exceeded", "429 Rate limit reached.") }

\* concurrent image requests that carry one prompt, with two histories and
\* two first-stage texts
NextKey ==
    \/ \E r \in Clients :
          POST(r, {FormBody},
               {FormString(<<"D", "r", "a", "w", " ", "a", " ", "L", "O", "G", "O">>)},
               CoreHistories)
    \/ \E r \in Clients : FormDataReturns(r)
    \/ \E r \in Clients : CompletionReturns(r, KeyContents, WriteErrors)
    \/ \E r \in Clients : ImageReturns(r, CoreImages, WriteErrors)
    \/ \E r \in Clients : Finish(r)
    \/ Tick

KeySpec == Init /\ [][NextKey]_vars

WriteMessages ==
    { FormString(<<" ", "h", "i", " ">>),
      FormString(<<"D", "r", "a", "w", " ", "a", " ", "L", "O", "G", "O">>),
      FormString(<<"s", "p", "e", "a", "k">>) }
WriteContents == { NoContent, Content(<<"a", " ", "c", "a", "t">>) }

\* concurrent requests of the three intents whose upstream calls succeed,
\* come back empty or fail
NextWrite ==
    \/ \E r \in Clients : POST(r, {FormBody}, WriteMessages, {HistNull})
    \/ \E r \in Clients : FormDataReturns(r)
    \/ \E r \in Clients : CompletionReturns(r, WriteContents, WriteErrors)
    \/ \E r \in Clients : ImageReturns(r, AllImages \cup CoreImages, WriteErrors)
    \/ \E r \in Clients : SpeechReturns(r, WriteErrors)
    \/ \E r \in Clients : AudioReturns(r, CoreAudios, WriteErrors)
    \/ \E r \in Clients : Finish(r)
    \/ Tick

WriteSpec == Init /\ [][NextWrite]_vars

\* textContent: the marks the voice depends on, then filler up to a length
\* of a few characters or of about 200
VoiceContents ==
    { Content(marks \o [i \in 1..(len - Len(marks)) |-> "a"]) :
        marks \in { <<>>, <<"?">>, <<"!">>, <<"!", "?">> },
        len \in {3} \cup ((200 - MaxOver)..(200 + MaxOver)) }

\* audio requests whose speech synthesis fails: the cache stays empty, so
\* every text reaches the choice of the voice
NextVoice ==
    \/ POST(1, {FormBody}, {FormString(<<"s", "p", "e", "a", "k">>)}, {HistNull})
    \/ FormDataReturns(1)
    \/ CompletionReturns(1, VoiceContents, WriteErrors)
    \/ SpeechReturns(1, WriteErrors)
    \/ AudioReturns(1, {}, WriteErrors)
    \/ Finish(1)
    \/ Tick

VoiceSpec == Init /\ [][NextVoice]_vars

\* the events of ChatInput in any order
NextInput ==
    \/ SetLoading
    \/ setInput
    \/ ProbeSettles
    \/ handleSubmit
    \/ OpenFileDialog
    \/ CancelFileDialog
    \/ handleFileChange
    \/ ReaderLoad
    \/ startRecording
    \/ startRecordingResumes
    \/ stopRecording
    \/ RecorderStop
    \/ RecorderEnds
    \/ clearMedia

InputSpec == Init /\ [][NextInput]_vars

----------------------------------------------------------------------------
(* Properties *)

IsEmptyText(t) == t.lit = "" /\ t.chars = <<>>

\* the cache key of the synthesis a request asked for
KeyOf(q) == generateCacheKey(q.text, IF q.intent = "image" THEN KeyImage ELSE KeyAudio)

\* the payload in the data URL of a request's response
PayloadOf(q) ==
    SubSeq(q.response.envelope.url, Len(IMAGE_URL_PREFIX) + 1,
           Len(q.response.envelope.url))

\* in this step request r enters generateImage or generateAudio and looks
\* its text up in the cache
LooksUp(r) ==
    /\ requests[r].pc = "completion"
    /\ requests'[r].pc \in {"imageSynth", "audioSynth", "done"}
    /\ requests'[r].text # <<>>

\* C1: a prompt that matches the image action pattern and the image subject
\* pattern takes the image branch, also when it matches both audio patterns:
\* speech synthesis is never called, image synthesis is what an image
\* envelope comes from, and a success envelope has type image, or type text
\* with the region text, never type audio.
C1_ImageBeforeAudio ==
    \A r \in Clients :
        LET q == requests[r]
        IN  (q.calls.completion > 0 /\ isImageRequest(q.message.chars)) =>
                /\ q.intent = "image"
                /\ q.pc \notin {"audioSynth", "audioBody"}
                /\ q.calls.speech = 0
                /\ q.response.kind = "envelope" =>
                    \/ /\ q.response.envelope.type = "image"
                       /\ q.hit \/ q.calls.image = 1
                    \/ q.response.envelope = RegionEnvelope

C1_Witness ==
    \E r \in Clients :
        LET q == requests[r]
        IN  /\ q.pc = "done"
            /\ isImageRequest(q.message.chars)
            /\ isAudioRequest(q.message.chars)
            /\ q.calls.image = 1
            /\ q.response.kind = "envelope"
            /\ q.response.envelope.type = "image"

\* C2 as written: once a request has stored a payload under a key, every
\* later lookup of that key made less than CACHE_TTL after that store is
\* answered with that very payload, without a synthesis call and without a
\* cache write.
C2_Original ==
    [][\A a, b \in Clients :
        ( /\ a # b
          /\ requests[a].pc = "done"
          /\ requests[a].storedAt >= 0
          /\ LooksUp(b)
          /\ requests'[b].intent = requests[a].intent
          /\ requests'[b].text = requests[a].text
          /\ now - requests[a].storedAt < CACHE_TTL )
        => ( /\ requests'[b].pc = "done"
             /\ requests'[b].response.kind = "envelope"
             /\ PayloadOf(requests'[b]) = PayloadOf(requests[a])
             /\ requests'[b].calls.image = 0
             /\ requests'[b].calls.speech = 0
             /\ responseCache' = responseCache )]_vars

\* C2 amended: a lookup made less than CACHE_TTL after the latest store
\* under its key is answered with the payload of that latest store, without
\* a synthesis call and without a cache write.
C2_HitWithinTtl ==
    [][\A r \in Clients :
        ( /\ LooksUp(r)
          /\ KeyOf(requests'[r]) \in DOMAIN responseCache
          /\ now - responseCache[KeyOf(requests'[r])].timestamp < CACHE_TTL )
        => ( /\ requests'[r].pc = "done"
             /\ requests'[r].response.kind = "envelope"
             /\ requests'[r].response.envelope.type = requests'[r].intent
             /\ PayloadOf(requests'[r]) = responseCache[KeyOf(requests'[r])].data
             /\ requests'[r].calls.image = 0
             /\ requests'[r].calls.speech = 0
             /\ responseCache' = responseCache )]_vars

\* a request served from an entry stored at an earlier instant
C2_Witness ==
    \E r \in Clients :
        LET q == requests[r]
        IN  /\ q.pc = "done"
            /\ q.hit
            /\ KeyOf(q) \in DOMAIN responseCache
            /\ responseCache[KeyOf(q)].timestamp < now
            /\ PayloadOf(q) = responseCache[KeyOf(q)].data

\* C3: a lookup made CACHE_TTL or more after the entry's insertion is a miss
\* (the synthesis call is made again) and leaves the entry in place; no step
\* removes a key, and an entry changes only by a successful store under its
\* key.
C3_ExpiredIsMissNotPurged ==
    [][ /\ \A r \in Clients :
            ( /\ LooksUp(r)
              /\ KeyOf(requests'[r]) \in DOMAIN responseCache
              /\ now - responseCache[KeyOf(requests'[r])].timestamp >= CACHE_TTL )
            => ( /\ requests'[r].pc \in {"imageSynth", "audioSynth"}
                 /\ requests'[r].calls.image + requests'[r].calls.speech = 1
                 /\ responseCache' = responseCache )
        /\ \A k \in DOMAIN responseCache :
            /\ k \in DOMAIN responseCache'
            /\ responseCache'[k] # responseCache[k] =>
                \E r \in Clients :
                    /\ requests[r].pc \in {"imageSynth", "audioBody"}
                    /\ KeyOf(requests[r]) = k
                    /\ requests'[r].pc = "done"
                    /\ requests'[r].storedAt = now
                    /\ responseCache'[k] =
                          [data |-> PayloadOf(requests'[r]), timestamp |-> now]
      ]_vars

\* a synthesis call in flight for a key whose entry, inserted exactly
\* CACHE_TTL earlier, is still in the cache
C3_Witness ==
    \E r \in Clients :
        LET q == requests[r]
        IN  /\ q.pc \in {"imageSynth", "audioSynth", "audioBody"}
            /\ KeyOf(q) \in DOMAIN responseCache
            /\ now - responseCache[KeyOf(q)].timestamp = CACHE_TTL

\* a message field that is missing, not a string, empty or whitespace only
BlankMessage(message) ==
    \/ message.tag # "string"
    \/ \A i \in 1..Len(message.chars) :
          message.chars[i] \in {" ", "\t", "\n", "\r", "\f", "U+000B", "U+00A0", "U+FEFF"}

\* in this step the handler of slot r takes a request
Receives(r) ==
    requests[r].pc \in {"idle", "form"} /\ requests'[r].pc \notin {"idle", "form"}

NoCalls(q) == q.calls.completion = 0 /\ q.calls.image = 0 /\ q.calls.speech = 0

\* C4 as written: every request with a blank message is answered with
\* status 400 and the invalid-request text, with no upstream call and the
\* cache unchanged.
C4_Original ==
    [][\A r \in Clients :
        (Receives(r) /\ requests'[r].body.ok /\ BlankMessage(requests'[r].message))
        => ( /\ requests'[r].pc = "done"
             /\ requests'[r].response = JsonError(ERROR_MESSAGES.INVALID_REQUEST, 400)
             /\ NoCalls(requests'[r])
             /\ responseCache' = responseCache )]_vars

\* C4 amended: a request whose form parses and whose message is blank is
\* answered with 400 and the invalid-request text when the credential is
\* set, and with 500 and the missing-credential text when it is not; either
\* way no upstream call is made and the cache is unchanged.
C4_BlankMessageRejected ==
    [][\A r \in Clients :
        (Receives(r) /\ requests'[r].body.ok /\ BlankMessage(requests'[r].message))
        => ( /\ requests'[r].pc = "done"
             /\ requests'[r].responses = 1
             /\ requests'[r].response =
                   IF OPENAI_API_KEY
                   THEN JsonError(ERROR_MESSAGES.INVALID_REQUEST, 400)
                   ELSE JsonError(ERROR_MESSAGES.MISSING_API_KEY, 500)
             /\ NoCalls(requests'[r])
             /\ responseCache' = responseCache )]_vars

\* a whitespace-only message rejected while the cache holds an entry
C4_Witness ==
    \E r \in Clients :
        LET q == requests[r]
        IN  /\ q.pc = "done"
            /\ q.message.tag = "string"
            /\ q.message.chars # <<>>
            /\ BlankMessage(q.message)
            /\ q.response = JsonError(ERROR_MESSAGES.INVALID_REQUEST, 400)
            /\ DOMAIN responseCache # {}

\* C5: when an upstream call of an image or audio request fails with the
\* region code, the response is the success envelope {type: text, content:
\* REGION_ERROR} without url; no error response carries the region text.
C5_RegionDowngraded ==
    \A r \in Clients :
        LET q == requests[r]
        IN  /\ ( /\ q.pc = "done"
                 /\ q.intent \in {"image", "audio"}
                 /\ q.thrown.api
                 /\ q.thrown.code = REGION_CODE )
               => ( /\ q.response.kind = "envelope"
                    /\ q.response.status = 200
                    /\ q.response.envelope.type = "text"
                    /\ q.response.envelope.content = Lit(ERROR_MESSAGES.REGION_ERROR)
                    /\ ~q.response.envelope.hasUrl )
            /\ q.response.kind = "error" =>
                  q.response.error # ERROR_MESSAGES.REGION_ERROR

\* the speech synthesis of an audio request failed with the region code
C5_Witness ==
    \E r \in Clients :
        LET q == requests[r]
        IN  /\ q.pc = "done"
            /\ q.intent = "audio"
            /\ q.calls.speech = 1
            /\ q.thrown.api
            /\ q.thrown.code = REGION_CODE
            /\ q.response = JsonEnvelope(RegionEnvelope)

\* the array the history field denotes, or the empty array
HistoryItems(q) ==
    IF q.historyStr.tag = "string" /\ q.historyStr.json.t \in {"array", "string"}
    THEN q.historyStr.json.items
    ELSE <<>>

\* C6: the text-completion call carries at most 5 history entries, the last
\* 5 of the input in their order, before the user prompt: at most 6 messages
\* for text intent and 7 for the two-stage flows.
C6_HistoryWindow ==
    \A r \in Clients :
        LET q == requests[r]
            h == HistoryItems(q)
            n == Len(h)
            k == IF n < 5 THEN n ELSE 5
            extra == IF q.intent \in {"image", "audio"} THEN 1 ELSE 0
        IN  q.calls.completion > 0 =>
                /\ Len(q.messages) = k + 1 + extra
                /\ Len(q.messages) <= 6 + extra
                /\ \A i \in 1..k : q.messages[i] = h[n - k + i]
                /\ q.messages[k + 1] = UserMessage(q.message.chars)
                /\ \A i \in (k + 2)..Len(q.messages) : q.messages[i].role = "system"

\* a two-stage call of 7 messages made from a history longer than 5
C6_Witness ==
    \E r \in Clients :
        LET q == requests[r]
        IN  /\ q.pc = "completion"
            /\ q.historyStr.json.t = "array"
            /\ Len(q.historyStr.json.items) > 5
            /\ Len(q.messages) = 7
            /\ q.messages[1] = HistoryEntry(Len(q.historyStr.json.items) - 4)

\* C7 as written: a history field that is not a well-formed JSON array
\* never aborts the request, which proceeds as if history were empty.
C7_Claim ==
    \A r \in Clients :
        LET q == requests[r]
        IN  ( /\ q.pc \notin {"idle", "form"}
              /\ OPENAI_API_KEY
              /\ q.body.ok
              /\ ~BlankMessage(q.message)
              /\ q.historyStr.tag = "string"
              /\ q.historyStr.json.t # "array" )
            => ( /\ q.calls.completion = 1
                 /\ q.messages =
                       CompletionMessages(q.intent, q.message.chars, EmptyArray) )

\* C8: a request gets one response, an error body or an envelope of type
\* text, image or audio with non-empty content, with a url exactly for
\* image and audio, the url starting with the data URL prefix of its type.
C8_OneNormalizedResponse ==
    \A r \in Clients :
        LET q == requests[r]
            e == q.response.envelope
        IN  /\ q.responses = (IF q.pc = "done" THEN 1 ELSE 0)
            /\ q.pc = "done" => q.response.kind \in {"error", "envelope"}
            /\ q.pc # "done" => q.response.kind = "none"
            /\ q.response.kind = "envelope" =>
                /\ e.type \in {"text", "image", "audio"}
                /\ ~IsEmptyText(e.content)
                /\ e.hasUrl <=> e.type \in {"image", "audio"}
                /\ e.type = "image" => StartsWith(e.url, IMAGE_URL_PREFIX)
                /\ e.type = "audio" => StartsWith(e.url, AUDIO_URL_PREFIX)

\* an audio envelope whose url is the prefix followed by the payload
C8_Witness ==
    \E r \in Clients :
        LET q == requests[r]
        IN  /\ q.pc = "done"
            /\ q.response.kind = "envelope"
            /\ q.response.envelope.type = "audio"
            /\ Len(q.response.envelope.url) > Len(AUDIO_URL_PREFIX)

\* C9 as written, for the requests whose form parsed: every error body
\* carries one of the 13 taxonomy strings, never the raw message of an
\* exception.
C9_Claim ==
    \A r \in Clients :
        (requests[r].response.kind = "error" /\ requests[r].body.ok) =>
            requests[r].response.error \in ErrorMessage

\* C10 as written: the status of an error response is 500, 400, 401, 429 or
\* the status of a region-restriction provider error.
C10_Original ==
    \A r \in Clients :
        LET q == requests[r]
        IN  q.response.kind = "error" =>
                \/ q.response.status \in {500, 400, 401, 429}
                \/ q.thrown.code = REGION_CODE /\ q.response.status = q.thrown.status

\* C10 amended: the status is 500 for a missing credential, an unparseable
\* form, a failure that is not a provider error and any failure of a
\* synthesis call; 400 for a blank message; and for a provider error of the
\* text-completion call 400 on the content-policy code, else the provider's
\* own status whatever it is, else 500 when it has none.
C10_StatusForwarded ==
    \A r \in Clients :
        LET q == requests[r]
        IN  q.response.kind = "error" =>
                q.response.status =
                    IF ~OPENAI_API_KEY \/ ~q.body.ok THEN 500
                    ELSE IF BlankMessage(q.message) THEN 400
                    ELSE IF ~q.thrown.api \/ q.calls.image + q.calls.speech > 0 THEN 500
                    ELSE IF q.thrown.code = POLICY_CODE THEN 400
                    ELSE IF q.thrown.status # 0 THEN q.thrown.status
                    ELSE 500

\* an upstream status outside 500, 400, 401 and 429 forwarded to the client
C10_Witness ==
    \E r \in Clients :
        LET q == requests[r]
        IN  /\ q.pc = "done"
            /\ q.response.kind = "error"
            /\ q.thrown.api
            /\ q.response.status = q.thrown.status
            /\ q.response.status \notin {500, 400, 401, 429}

\* C11 as written: a provider error is mapped by its status and code
\* whichever upstream call raised it: 401 gives the invalid-credential
\* text, 429 the rate-limit text, the content-policy code status 400 with
\* the content-policy text.
C11_Claim ==
    \A r \in Clients :
        LET q == requests[r]
        IN  (q.pc = "done" /\ q.thrown.api) =>
                /\ q.thrown.status = 401 =>
                      /\ q.response.kind = "error"
                      /\ q.response.error = ERROR_MESSAGES.INVALID_API_KEY
                /\ q.thrown.status = 429 =>
                      /\ q.response.kind = "error"
                      /\ q.response.error = ERROR_MESSAGES.RATE_LIMIT
                /\ q.thrown.code = POLICY_CODE =>
                      q.response = JsonError(ERROR_MESSAGES.CONTENT_POLICY, 400)

\* C12: within one request the text-completion endpoint is called at most
\* once and one synthesis endpoint at most once, never both; a failed
\* upstream call ends the request in the same step, and a request that has
\* its response makes no further call.
C12_NoRetry ==
    [][\A r \in Clients :
        LET q == requests'[r]
        IN  /\ q.calls.completion <= 1
            /\ q.calls.image + q.calls.speech <= 1
            /\ q.calls.image + q.calls.speech = 1 => q.calls.completion = 1
            /\ q.thrown # NoError => q.pc = "done"
            /\ requests[r].pc = "done" => (q = requests[r] \/ q = IdleRequest)
      ]_vars

\* a request ended by the failure of its image synthesis call, after one
\* text-completion call and one image call
C12_Witness ==
    \E r \in Clients :
        LET q == requests[r]
        IN  /\ q.pc = "done"
            /\ q.thrown # NoError
            /\ q.calls = [completion |-> 1, image |-> 1, speech |-> 0]
            /\ q.response.kind = "error"

\* C13 as written: the cache is keyed on the literal prompt of the request:
\* a request that carries the same prompt as an earlier one, with a
\* different history, and reaches its lookup less than CACHE_TTL after the
\* earlier one's store, is served the earlier one's payload.
C13_Original ==
    [][\A a, b \in Clients :
        ( /\ a # b
          /\ requests[a].pc = "done"
          /\ requests[a].storedAt >= 0
          /\ LooksUp(b)
          /\ requests[b].message = requests[a].message
          /\ requests[b].intent = requests[a].intent
          /\ requests[b].historyStr # requests[a].historyStr
          /\ now - requests[a].storedAt < CACHE_TTL )
        => ( /\ requests'[b].pc = "done"
             /\ requests'[b].hit
             /\ PayloadOf(requests'[b]) = PayloadOf(requests[a]) )]_vars

\* C13 amended: the cache is keyed on the kind and the text handed to
\* synthesis, which is the text the first stage returned, not the prompt of
\* the request.  A request whose first-stage text equals that of an earlier
\* request of the same kind, whatever the two histories, and that looks up
\* less than CACHE_TTL after the earlier one's store, while that store is
\* still the entry of the key, is served the earlier one's payload without
\* a synthesis call; a request whose kind and first-stage text have no
\* entry is not served from the cache, whatever prompts the entries came
\* from.
C13_KeyedOnFirstStageText ==
    [][\A b \in Clients :
        LooksUp(b) =>
            LET kind == IF requests'[b].intent = "image" THEN KeyImage ELSE KeyAudio
                key  == kind \o <<":">> \o requests'[b].text
            IN  /\ \A a \in Clients \ {b} :
                    ( /\ requests[a].pc = "done"
                      /\ requests[a].storedAt >= 0
                      /\ requests[a].intent = requests'[b].intent
                      /\ requests[a].text = requests'[b].text
                      /\ now - requests[a].storedAt < CACHE_TTL
                      /\ key \in DOMAIN responseCache
                      /\ responseCache[key] = [data |-> PayloadOf(requests[a]),
                                               timestamp |-> requests[a].storedAt] )
                    => ( /\ requests'[b].pc = "done"
                         /\ requests'[b].hit
                         /\ requests'[b].response.kind = "envelope"
                         /\ PayloadOf(requests'[b]) = PayloadOf(requests[a])
                         /\ requests'[b].calls.image = 0
                         /\ requests'[b].calls.speech = 0 )
                /\ key \notin DOMAIN responseCache
                    => ( /\ ~requests'[b].hit
                         /\ requests'[b].pc \in {"imageSynth", "audioSynth"} )
      ]_vars

\* two requests with one prompt and different histories: the second got the
\* first's first-stage text and was served the first's payload
C13_Witness ==
    \E a, b \in Clients :
        /\ a # b
        /\ requests[a].pc = "done" /\ requests[a].storedAt >= 0
        /\ requests[b].pc = "done" /\ requests[b].hit
        /\ requests[b].message = requests[a].message
        /\ requests[b].historyStr # requests[a].historyStr
        /\ requests[b].text = requests[a].text
        /\ PayloadOf(requests[b]) = PayloadOf(requests[a])

\* C14: the voice of the speech call is decided by the text alone, by the
\* first of these that applies: the text has a question mark, shimmer; it is
\* longer than 200 characters, onyx; it has an exclamation mark, fable;
\* otherwise nova.
C14_VoiceByFirstMatch ==
    \A r \in Clients :
        LET q == requests[r]
            has(c) == \E i \in 1..Len(q.text) : q.text[i] = c
        IN  IF q.calls.speech = 0 THEN q.voice = ""
            ELSE /\ has("?") => q.voice = "shimmer"
                 /\ (~has("?") /\ Len(q.text) > 200) => q.voice = "onyx"
                 /\ (~has("?") /\ Len(q.text) <= 200 /\ has("!")) => q.voice = "fable"
                 /\ (~has("?") /\ Len(q.text) <= 200 /\ ~has("!")) => q.voice = "nova"

\* a text longer than 200 characters with an exclamation mark and no
\* question mark went to speech synthesis with onyx
C14_Witness ==
    \E r \in Clients :
        LET q == requests[r]
        IN  /\ q.calls.speech = 1
            /\ Len(q.text) > 200
            /\ \E i \in 1..Len(q.text) : q.text[i] = "!"
            /\ \A i \in 1..Len(q.text) : q.text[i] # "?"
            /\ q.voice = "onyx"

\* the payloads a synthesis call can return
ImagePayloads ==
    { image.chars : image \in { i \in AllImages \cup CoreImages :
                                    i.present /\ i.chars # <<>> } }
AudioPayloads == { Base64(bytes) : bytes \in AllAudios \cup CoreAudios }

\* every entry of the cache holds a payload synthesis returned for the kind
\* of its key, stamped no later than now
C15_Entries ==
    \A k \in DOMAIN responseCache :
        /\ responseCache[k].timestamp <= now
        /\ \/ /\ StartsWith(k, KeyImage \o <<":">>)
              /\ responseCache[k].data \in ImagePayloads
           \/ /\ StartsWith(k, KeyAudio \o <<":">>)
              /\ responseCache[k].data \in AudioPayloads

\* a step that changes the cache is the successful return of one request's
\* synthesis call, and it sets the entry of that request's key, and only
\* that entry, to the payload returned and the present instant; a step in
\* which a synthesis call fails or returns no image data, or the first
\* stage fails or returns nothing, leaves the cache as it was; a request of
\* text intent is never served from the cache and never calls synthesis
C15_Step ==
    /\ responseCache' # responseCache =>
          \E r \in Clients :
              LET q   == requests[r]
                  p   == requests'[r]
                  key == (IF q.intent = "image" THEN KeyImage ELSE KeyAudio)
                             \o <<":">> \o q.text
              IN  /\ q.pc \in {"imageSynth", "audioBody"}
                  /\ p.pc = "done"
                  /\ p.thrown = NoError
                  /\ p.response.kind = "envelope"
                  /\ p.response.envelope.type = q.intent
                  /\ DOMAIN responseCache' = DOMAIN responseCache \cup {key}
                  /\ responseCache'[key] = [data |-> PayloadOf(p), timestamp |-> now]
                  /\ \A k \in DOMAIN responseCache \ {key} :
                        responseCache'[k] = responseCache[k]
    /\ \A r \in Clients :
          LET q == requests[r]
              p == requests'[r]
          IN  /\ ( /\ q.pc \in {"imageSynth", "audioSynth", "audioBody"}
                   /\ p.pc = "done"
                   /\ ~p.response.envelope.hasUrl )
                  => responseCache' = responseCache
              /\ ( /\ q.pc = "completion"
                   /\ p.pc = "done"
                   /\ p.text = <<>> )
                  => ( /\ responseCache' = responseCache
                       /\ ~p.hit
                       /\ p.calls.image = 0 /\ p.calls.speech = 0 )
              /\ p.intent = "text"
                  => ( /\ ~p.hit /\ p.storedAt = -1
                       /\ p.pc \notin {"imageSynth", "audioSynth", "audioBody"}
                       /\ p.calls.image = 0 /\ p.calls.speech = 0
                       /\ p # q => responseCache' = responseCache )

\* C15: the cache is written only by a successful synthesis call: a failed
\* synthesis call, missing image data, a failed or empty first stage and a
\* text-intent request leave it exactly as it was, an expired entry
\* included, so that under every interleaving each entry holds a payload
\* synthesis returned for its key.
C15_WrittenOnlyOnSuccess == []C15_Entries /\ [][C15_Step]_vars

\* an entry has expired, a later request for its key had its synthesis call
\* fail, and the entry still holds its payload and its timestamp
C15_Witness ==
    \E r \in Clients :
        LET q == requests[r]
        IN  /\ q.pc = "done"
            /\ q.response.kind = "error"
            /\ q.calls.image = 1
            /\ KeyOf(q) \in DOMAIN responseCache
            /\ now - responseCache[KeyOf(q)].timestamp >= CACHE_TTL
            /\ responseCache[KeyOf(q)].data \in ImagePayloads

\* preview is set only while mediaFile is, and recording and an attachment
\* never hold together
C16_Consistent ==
    /\ chatInput.preview.present => chatInput.mediaFile # NoFile
    /\ ~(chatInput.isRecording /\ chatInput.mediaFile # NoFile)

\* the change event of a file over 5 MB leaves mediaFile and preview alone
C16_BigFileStep ==
    ( /\ chatInput'.fileInput # chatInput.fileInput
      /\ chatInput'.fileInput.size > 5 * 1024 * 1024 )
    => ( /\ chatInput'.mediaFile = chatInput.mediaFile
         /\ chatInput'.preview = chatInput.preview )

\* C16: whatever the order of file selection, FileReader load, start and
\* stop of recording, the recorder's stop event, clearMedia and submit, a
\* preview is shown only while a file is attached, recording and an
\* attached file never hold together, and a file over 5 MB changes neither
\* mediaFile nor preview.
C16_Claim == []C16_Consistent /\ [][C16_BigFileStep]_vars

====
